---- MODULE Spec2Model ----
(***************************************************************************)
(* Documint: retrieval-augmented question answering over one uploaded      *)
(* document.  The module models the parser (rag/parsing.py), the cleaner   *)
(* (rag/cleaning.py), the chunker (rag/chunking.py), the retriever         *)
(* (rag/retrieval.py), the generator (rag/generation.py) and the upload    *)
(* and question-answering blocks of the app (app/streamlit_app.py).        *)
(*                                                                         *)
(* The chunker sees a section text at word level: the sequence of its      *)
(* whitespace-delimited words (what re.findall(r"\S+", text) returns), and *)
(* " ".join(words[a:b]) is the sub-sequence words[a:b].  The parser and    *)
(* the cleaner see it at character level, line breaks and blanks included. *)
(***************************************************************************)
EXTENDS Integers, Sequences, FiniteSets, TLC

VARIABLES
    cfg,            \* RAGConfig fields read by the modelled code
    text,           \* argument of the last _chunk_text call (its words)
    chunks,         \* return value of the last _chunk_text call
    spans,          \* (start, end) of the loop for each appended chunk
    cleaned_pages,  \* argument of the last chunk_pages call
    docs,           \* return value of the last chunk_pages call
    faiss,          \* FAISSStore: whether store is set, and the indexed documents
    query,          \* the question: its token counts, its distance to each chunk
    args,           \* top_k and threshold given to retrieve
    search_calls,   \* the index searches made by the call, in order
    docs_with_scores, \* what the index search returned
    filtered,       \* return value of retrieve
    raised,         \* the error the call raised, "none" if it returned
    results,        \* docs_with_scores argument of generate
    seg_tokens,     \* generator-tokenizer count of each chunk's rendered segment
    llm,            \* what each generation attempt does: primary, then fallbacks
    context,        \* the segments packed by _build_context, in order
    citations,      \* citations returned by generate
    answer,         \* answer returned by generate
    outcome,        \* how generate ended
    llm_calls,      \* the models invoked by the call, in order
    error,          \* the error generate raised, kind "none" if it returned
    model_name,     \* GroqGenerator.model_name
    parsed,         \* session_state.parsed: the parsing method, "" when None
    chat,           \* session_state.chat
    uploaded,       \* the file in the uploader widget
    env,            \* the process environment: whether GROQ_API_KEY is set
    asked,          \* whether the last script run reached the question block
    runs,           \* script runs so far
    builds,         \* build_index calls that returned in the last script run
    file,           \* the file given to parse_file
    document,       \* the ParsedDocument parse_file returned / clean_text is given
    parse_error,    \* the error parse_file raised, "none" if it returned
    common,         \* common_headers and common_footers of the last clean_text call
    cleaned,        \* return value of the last clean_text call
    passes,         \* clean_text calls made so far
    op              \* the operation that produced the current state

chunkerVars == <<text, chunks, spans, cleaned_pages, docs>>

retrieverVars == <<faiss, query, args, search_calls, docs_with_scores, filtered, raised>>

generatorVars == <<results, seg_tokens, llm, context, citations, answer, outcome,
                   llm_calls, error, model_name>>

sessionVars == <<parsed, chat, uploaded, env, asked, runs, builds>>

ingestVars == <<file, document, parse_error, common, cleaned, passes>>

vars == <<cfg, chunkerVars, retrieverVars, generatorVars, sessionVars, ingestVars, op>>

----------------------------------------------------------------------------
\* Bounds of the model.

\* longest section text, in words, given to _chunk_text alone
MaxWords == 6
\* largest chunk_size_tokens / chunk_overlap_tokens tried
MaxSize == 3
\* most sections in a chunk_pages call
MaxSections == 3
\* longest section text, in words, inside a chunk_pages call
MaxSecWords == 2

\* most chunks in an index searched by the retriever alone
MaxChunks == 3
\* largest distance between a query and a chunk, and largest threshold
MaxDist == 3
\* largest top_k given to retrieve
MaxTopK == 3
\* largest max_query_tokens; queries have up to one token more
MaxQueryTokens == 2

\* most results given to generate alone
MaxResults == 3
\* largest token count of one rendered segment
MaxSegTokens == 2
\* largest max_context_tokens
MaxContext == 4
\* longest list of fallback models
MaxFallbacks == 2

\* most script runs in a session
MaxRuns == 3

----------------------------------------------------------------------------
\* Program constants.

\* RAGConfig.chunk_size_tokens default
DefaultChunkSize == 500
\* RAGConfig.chunk_overlap_tokens default
DefaultChunkOverlap == 100
\* width of the zero-padded ordinal in f"chunk-{chunk_counter:05d}"
\* RAGConfig.max_pages_pdf
DefaultMaxPagesPdf == 100

ChunkIdWidth == 5

----------------------------------------------------------------------------
\* Helpers.

Min(a, b) == IF a <= b THEN a ELSE b

Max(a, b) == IF a >= b THEN a ELSE b

\* words[a:b] of Python (0-based, end exclusive)
Slice(words, a, b) == SubSeq(words, a + 1, b)

\* all sequences over S of length at most n
SeqsUpTo(S, n) == UNION {[1..k -> S] : k \in 0..n}

----------------------------------------------------------------------------
\* rag/chunking.py

\* the window texts the loop never appends
Placeholders == {<<"[CLS]">>, <<"[SEP]">>, <<"[CLS]", "[SEP]">>}

\* size, overlap and step as _chunk_text clamps them
ClampSize(c) == Max(c.chunk_size_tokens, 1)

ClampOverlap(c) == Max(Min(c.chunk_overlap_tokens, ClampSize(c) - 1), 0)

ClampStep(c) == Max(ClampSize(c) - ClampOverlap(c), 1)

\* The loop `for start in range(0, len(words), step)`: acc is the list of
\* appended windows, each with the start and end the loop computed for it.
RECURSIVE ChunkLoop_NoBreak(_, _, _, _, _)
ChunkLoop_NoBreak(words, size, step, start, acc) ==
    IF start >= Len(words) THEN acc
    ELSE LET end == Min(start + size, Len(words))
             chunk_text == Slice(words, start, end)
         IN  IF chunk_text = <<>> \/ chunk_text \in Placeholders
             THEN ChunkLoop_NoBreak(words, size, step, start + step, acc)
             ELSE ChunkLoop_NoBreak(words, size, step, start + step,
                      Append(acc, [start |-> start, end |-> end,
                                   chunk_text |-> chunk_text]))

RECURSIVE ChunkLoop(_, _, _, _, _)
ChunkLoop(words, size, step, start, acc) ==
    IF start >= Len(words) THEN acc
    ELSE LET end == Min(start + size, Len(words))
             chunk_text == Slice(words, start, end)
         IN  IF chunk_text = <<>> \/ chunk_text \in Placeholders
             THEN ChunkLoop(words, size, step, start + step, acc)
             ELSE LET acc2 == Append(acc, [start |-> start, end |-> end,
                                           chunk_text |-> chunk_text])
                  IN  IF end = Len(words) THEN acc2
                      ELSE ChunkLoop(words, size, step, start + step, acc2)

\* the windows of _chunk_text with their loop positions
ChunkWindows_WideStep(words, c) ==
    IF words = <<>> THEN <<>>
    ELSE ChunkLoop(words, ClampSize(c), ClampStep(c) + 1, 0, <<>>)

ChunkWindows(words, c) ==
    IF words = <<>> THEN <<>>
    ELSE ChunkLoop(words, ClampSize(c), ClampStep(c), 0, <<>>)

\* TokenChunker._chunk_text: the list of window texts
_chunk_text(words, c) ==
    LET w == ChunkWindows(words, c) IN [i \in 1..Len(w) |-> w[i].chunk_text]

\* f"{n:05d}": the decimal digits of n, zero-padded to ChunkIdWidth
RECURSIVE Digits(_)
Digits(n) == IF n < 10 THEN <<n>> ELSE Append(Digits(n \div 10), n % 10)

ZeroPad(d, width) ==
    IF Len(d) >= width THEN d ELSE [i \in 1..(width - Len(d)) |-> 0] \o d

\* f"chunk-{chunk_counter:05d}"
FormatChunkId(n) == <<"chunk-">> \o ZeroPad(Digits(n), ChunkIdWidth)

\* the number a digit sequence denotes
RECURSIVE DigitsValue(_)
DigitsValue(d) ==
    IF d = <<>> THEN 0 ELSE 10 * DigitsValue(SubSeq(d, 1, Len(d) - 1)) + d[Len(d)]

\* The loops of chunk_pages: pages from index p on, counter the value of
\* chunk_counter so far, acc the documents so far.
RECURSIVE ChunkPagesLoop_ResetCounter(_, _, _, _, _, _, _)
ChunkPagesLoop_ResetCounter(pages, source_file, parsing_method, c, p, counter, acc) ==
    IF p > Len(pages) THEN acc
    ELSE LET page_chunks == _chunk_text(pages[p].text, c)
             new == [i \in 1..Len(page_chunks) |->
                        [page_content |-> page_chunks[i],
                         metadata |-> [chunk_id |-> FormatChunkId(i),
                                       section_or_page |-> pages[p].sec_id,
                                       source_file |-> source_file,
                                       parsing_method |-> parsing_method]]]
         IN  ChunkPagesLoop_ResetCounter(pages, source_file, parsing_method, c,
                 p + 1, counter + Len(page_chunks), acc \o new)

RECURSIVE ChunkPagesLoop(_, _, _, _, _, _, _)
ChunkPagesLoop(pages, source_file, parsing_method, c, p, counter, acc) ==
    IF p > Len(pages) THEN acc
    ELSE LET page_chunks == _chunk_text(pages[p].text, c)
             new == [i \in 1..Len(page_chunks) |->
                        [page_content |-> page_chunks[i],
                         metadata |-> [chunk_id |-> FormatChunkId(counter + i),
                                       section_or_page |-> pages[p].sec_id,
                                       source_file |-> source_file,
                                       parsing_method |-> parsing_method]]]
         IN  ChunkPagesLoop(pages, source_file, parsing_method, c,
                 p + 1, counter + Len(page_chunks), acc \o new)

\* TokenChunker.chunk_pages
chunk_pages(pages, source_file, parsing_method, c) ==
    ChunkPagesLoop(pages, source_file, parsing_method, c, 1, 0, <<>>)

----------------------------------------------------------------------------
\* rag/vector_store.py and rag/retrieval.py

\* FAISSStore.__init__: store is None
NoStore == [built |-> FALSE, docs |-> <<>>]

\* FAISSStore.build_index: store holds the documents
build_index(ds) == [built |-> TRUE, docs |-> ds]

\* the positions 1..n ordered by ascending distance d, nearest first, equal
\* distances in index order
RECURSIVE NearestFirst(_, _)
NearestFirst(d, left) ==
    IF left = {} THEN <<>>
    ELSE LET i == CHOOSE x \in left :
                     \A y \in left : d[x] < d[y] \/ (d[x] = d[y] /\ x <= y)
         IN  <<i>> \o NearestFirst(d, left \ {i})

\* store.similarity_search_with_score(query, k): the k nearest documents
\* with their distances, nearest first
similarity_search_with_score(store, q, k) ==
    LET order == NearestFirst(q.dist, 1..Len(store.docs))
    IN  [i \in 1..Min(k, Len(order)) |->
            [doc |-> store.docs[order[i]], score |-> q.dist[order[i]]]]

\* Retriever._count_tokens(query), with the embedding model's tokenizer
EmbedTokens(q) == q.tokens

\* min(docs_with_scores, key=lambda x: float(x[1])): the first minimal element
MinByScore_Last(dws) == dws[Len(dws)]

MinByScore(dws) ==
    dws[CHOOSE i \in 1..Len(dws) :
            /\ \A j \in 1..Len(dws) : dws[i].score <= dws[j].score
            /\ \A j \in 1..(i - 1) : dws[j].score > dws[i].score]

\* the results within the threshold, or else the single best one
FilterByThreshold_NoFallback(dws, threshold) ==
    LET Within(r) == r.score <= threshold IN SelectSeq(dws, Within)

FilterByThreshold_Beyond(dws, threshold) ==
    LET Within(r) == r.score >= threshold
        kept == SelectSeq(dws, Within)
    IN  IF kept = <<>> /\ dws # <<>> THEN <<MinByScore(dws)>> ELSE kept

FilterByThreshold(dws, threshold) ==
    LET Within(r) == r.score <= threshold
        kept == SelectSeq(dws, Within)
    IN  IF kept = <<>> /\ dws # <<>> THEN <<MinByScore(dws)>> ELSE kept

\* what a call of retrieve does: the error it raises if any, the searches
\* it made, what the search returned and what it returns
RetrieveRaises(err, searches) ==
    [raised |-> err, search_calls |-> searches,
     docs_with_scores |-> <<>>, filtered |-> <<>>]

\* Retriever.retrieve with the search made before the token check
retrieve_SearchFirst(q, top_k, threshold, store, c) ==
    IF ~store.built THEN RetrieveRaises("AssertionError", <<>>)
    ELSE LET dws == similarity_search_with_score(store, q, top_k)
         IN  IF EmbedTokens(q) > c.max_query_tokens
             THEN RetrieveRaises("QueryTooLong", <<top_k>>)
             ELSE IF dws = <<>> THEN RetrieveRaises("NoContext", <<top_k>>)
             ELSE [raised |-> "none", search_calls |-> <<top_k>>,
                   docs_with_scores |-> dws,
                   filtered |-> FilterByThreshold(dws, threshold)]

\* Retriever.retrieve
retrieve(q, top_k, threshold, store, c) ==
    IF EmbedTokens(q) > c.max_query_tokens
    THEN RetrieveRaises("QueryTooLong", <<>>)
    ELSE IF ~store.built THEN RetrieveRaises("AssertionError", <<>>)
    ELSE LET dws == similarity_search_with_score(store, q, top_k)
         IN  IF dws = <<>> THEN RetrieveRaises("NoContext", <<top_k>>)
             ELSE [raised |-> "none", search_calls |-> <<top_k>>,
                   docs_with_scores |-> dws,
                   filtered |-> FilterByThreshold(dws, threshold)]

----------------------------------------------------------------------------
\* rag/generation.py

\* GroqGenerator._count_tokens(question), with the generation model's tokenizer
GenTokens(q) == q.gen_tokens

\* GroqGenerator._count_tokens(segment) of the segment rendered from doc:
\* tok gives the count for each chunk, by its ordinal
SegTokens(doc, tok) == tok[DigitsValue(Tail(doc.metadata.chunk_id))]

\* the segment f"{header}\n{body}" of a result: what the header exposes,
\* and the segment's token count
Segment(r, tok) ==
    [chunk_id |-> r.doc.metadata.chunk_id,
     section |-> r.doc.metadata.section_or_page,
     score |-> r.score,
     seg_tokens |-> SegTokens(r.doc, tok)]

\* {"chunk_id": chunk_id, "section": section, "score": float(score)}
Citation(r) ==
    [chunk_id |-> r.doc.metadata.chunk_id,
     section |-> r.doc.metadata.section_or_page,
     score |-> r.score]

\* The loop of _build_context from result i on: parts and citations so far,
\* total_tokens the running count.
RECURSIVE PackLoop_Backfill(_, _, _, _, _, _, _)
PackLoop_Backfill(dws, tok, max_context_tokens, i, total_tokens, parts, cits) ==
    IF i > Len(dws) THEN [parts |-> parts, citations |-> cits]
    ELSE LET seg == Segment(dws[i], tok)
         IN  IF total_tokens + seg.seg_tokens > max_context_tokens
             THEN PackLoop_Backfill(dws, tok, max_context_tokens, i + 1,
                      total_tokens, parts, cits)
             ELSE PackLoop_Backfill(dws, tok, max_context_tokens, i + 1,
                      total_tokens + seg.seg_tokens,
                      Append(parts, seg), Append(cits, Citation(dws[i])))

RECURSIVE PackLoop_CheckBeforeAdding(_, _, _, _, _, _, _)
PackLoop_CheckBeforeAdding(dws, tok, max_context_tokens, i, total_tokens, parts, cits) ==
    IF i > Len(dws) THEN [parts |-> parts, citations |-> cits]
    ELSE LET seg == Segment(dws[i], tok)
         IN  IF total_tokens >= max_context_tokens
             THEN [parts |-> parts, citations |-> cits]
             ELSE PackLoop_CheckBeforeAdding(dws, tok, max_context_tokens, i + 1,
                      total_tokens + seg.seg_tokens,
                      Append(parts, seg), Append(cits, Citation(dws[i])))

RECURSIVE PackLoop(_, _, _, _, _, _, _)
PackLoop(dws, tok, max_context_tokens, i, total_tokens, parts, cits) ==
    IF i > Len(dws) THEN [parts |-> parts, citations |-> cits]
    ELSE LET seg == Segment(dws[i], tok)
         IN  IF total_tokens + seg.seg_tokens > max_context_tokens
             THEN [parts |-> parts, citations |-> cits]
             ELSE PackLoop(dws, tok, max_context_tokens, i + 1,
                      total_tokens + seg.seg_tokens,
                      Append(parts, seg), Append(cits, Citation(dws[i])))

\* GroqGenerator._build_context: the packed segments and their citations
_build_context(dws, tok, c) ==
    PackLoop(dws, tok, c.max_context_tokens, 1, 0, <<>>, <<>>)

\* `not context`: "\n\n".join(parts) is empty, which it is only without parts,
\* every segment holding at least its header
ContextIsEmpty_Never(parts) == FALSE

ContextIsEmpty(parts) == parts = <<>>

\* the fixed refusal texts
NoContextText == <<"I cannot answer based on the provided document.">>

QueryTooLongText == <<"Your question is too long. Please shorten it.">>

NoError == [attempt |-> 0, kind |-> "none"]

\* a return of generate without any generation call
Refuse(how, refusal_text, parts, name) ==
    [outcome |-> how,
     answer |-> [content |-> refusal_text, suffix |-> "", cited |-> <<>>],
     citations |-> <<>>, context |-> parts, llm_calls |-> <<>>,
     error |-> NoError, model_name |-> name]

\* the fallback loop from candidate j on: the first candidate whose call
\* succeeds, 0 when every call failed. behaviour[1 + j] is what the call of
\* candidate j does.
RECURSIVE FallbackLoop(_, _, _)
FallbackLoop(candidates, j, behaviour) ==
    IF j > Len(candidates) THEN 0
    ELSE IF behaviour[1 + j] = "ok" THEN j
    ELSE FallbackLoop(candidates, j + 1, behaviour)

\* The try/except around self.model.invoke: the models called, the one
\* whose response is used ("" when the call raises), the error raised, and
\* model_name afterwards.
Invoke_RaiseLast(name, c, behaviour) ==
    IF behaviour[1] = "ok"
    THEN [llm_calls |-> <<name>>, responder |-> name, error |-> NoError,
          model_name |-> name]
    ELSE IF behaviour[1] # "decommissioned"
    THEN [llm_calls |-> <<name>>, responder |-> "",
          error |-> [attempt |-> 1, kind |-> behaviour[1]], model_name |-> name]
    ELSE LET cands == c.groq_fallbacks
             j == FallbackLoop(cands, 1, behaviour)
             n == Len(cands)
         IN  IF j > 0
             THEN [llm_calls |-> <<name>> \o SubSeq(cands, 1, j),
                   responder |-> cands[j], error |-> NoError,
                   model_name |-> cands[j]]
             ELSE [llm_calls |-> <<name>> \o cands, responder |-> "",
                   error |-> [attempt |-> 1 + n, kind |-> behaviour[1 + n]],
                   model_name |-> IF n = 0 THEN name ELSE cands[n]]

Invoke(name, c, behaviour) ==
    IF behaviour[1] = "ok"
    THEN [llm_calls |-> <<name>>, responder |-> name, error |-> NoError,
          model_name |-> name]
    ELSE IF behaviour[1] # "decommissioned"
    THEN [llm_calls |-> <<name>>, responder |-> "",
          error |-> [attempt |-> 1, kind |-> behaviour[1]], model_name |-> name]
    ELSE LET cands == c.groq_fallbacks
             j == FallbackLoop(cands, 1, behaviour)
             n == Len(cands)
         IN  IF j > 0
             THEN [llm_calls |-> <<name>> \o SubSeq(cands, 1, j),
                   responder |-> cands[j], error |-> NoError,
                   model_name |-> cands[j]]
             ELSE [llm_calls |-> <<name>> \o cands, responder |-> "",
                   error |-> [attempt |-> 1, kind |-> behaviour[1]],
                   model_name |-> IF n = 0 THEN name ELSE cands[n]]

\* f"{c['chunk_id']} ({c['section']})" for each citation
CitationItems(cits) == [i \in 1..Len(cits) |-> <<cits[i].chunk_id, cits[i].section>>]

\* GroqGenerator.generate, name being self.model_name at the call
generate_QueryCheckFirst(q, dws, tok, behaviour, name, c) ==
    IF GenTokens(q) > c.max_query_tokens
    THEN Refuse("Refused-QueryTooLong", QueryTooLongText, <<>>, name)
    ELSE IF dws = <<>> THEN Refuse("Refused-NoContext", NoContextText, <<>>, name)
    ELSE LET built == _build_context(dws, tok, c)
         IN  IF ContextIsEmpty(built.parts)
             THEN Refuse("Refused-ContextOverflow", NoContextText, built.parts, name)
             ELSE LET r == Invoke(name, c, behaviour)
                  IN  IF r.error.kind # "none"
                      THEN [outcome |-> "Raised",
                            answer |-> [content |-> <<>>, suffix |-> "", cited |-> <<>>],
                            citations |-> <<>>, context |-> built.parts,
                            llm_calls |-> r.llm_calls, error |-> r.error,
                            model_name |-> r.model_name]
                      ELSE [outcome |-> "Answered",
                            answer |->
                                [content |-> <<"response of", r.responder>>,
                                 suffix |-> IF built.citations # <<>>
                                            THEN "[...]" ELSE "[none]",
                                 cited |-> CitationItems(built.citations)],
                            citations |-> built.citations,
                            context |-> built.parts,
                            llm_calls |-> r.llm_calls, error |-> NoError,
                            model_name |-> r.model_name]

generate(q, dws, tok, behaviour, name, c) ==
    IF dws = <<>> THEN Refuse("Refused-NoContext", NoContextText, <<>>, name)
    ELSE IF GenTokens(q) > c.max_query_tokens
    THEN Refuse("Refused-QueryTooLong", QueryTooLongText, <<>>, name)
    ELSE LET built == _build_context(dws, tok, c)
         IN  IF ContextIsEmpty(built.parts)
             THEN Refuse("Refused-ContextOverflow", NoContextText, built.parts, name)
             ELSE LET r == Invoke(name, c, behaviour)
                  IN  IF r.error.kind # "none"
                      THEN [outcome |-> "Raised",
                            answer |-> [content |-> <<>>, suffix |-> "", cited |-> <<>>],
                            citations |-> <<>>, context |-> built.parts,
                            llm_calls |-> r.llm_calls, error |-> r.error,
                            model_name |-> r.model_name]
                      ELSE [outcome |-> "Answered",
                            answer |->
                                [content |-> <<"response of", r.responder>>,
                                 suffix |-> IF built.citations # <<>>
                                            THEN "[...]" ELSE "[none]",
                                 cited |-> CitationItems(built.citations)],
                            citations |-> built.citations,
                            context |-> built.parts,
                            llm_calls |-> r.llm_calls, error |-> NoError,
                            model_name |-> r.model_name]

----------------------------------------------------------------------------
\* rag/cleaning.py.  A text is the sequence of its characters, a run of
\* letters being written as one element ("CONFIDENTIAL", "Page"); "\n" ends
\* a line, " " and "\t" are the blanks the code collapses.

Blanks == {" ", "\t"}

Whitespace == Blanks \cup {"\n"}

DigitChars == {"0", "1", "2", "3", "4", "5", "6", "7", "8", "9"}

\* the characters of r"[-\u2013\u2014_=]{3,}" (the two long dashes are not in
\* the alphabet of the texts)
RuleChars == {"-", "_", "="}

\* the spellings r"[Pp]age" matches
PageWords == {"Page", "page"}

RECURSIVE LStrip(_)
LStrip(s) == IF s # <<>> /\ Head(s) \in Whitespace THEN LStrip(Tail(s)) ELSE s

RECURSIVE RStrip(_)
RStrip(s) ==
    IF s # <<>> /\ s[Len(s)] \in Whitespace THEN RStrip(SubSeq(s, 1, Len(s) - 1)) ELSE s

\* str.strip()
Strip(s) == RStrip(LStrip(s))

RECURSIVE SplitLoop(_, _, _, _)
SplitLoop(t, i, cur, acc) ==
    IF i > Len(t) THEN (IF cur = <<>> THEN acc ELSE Append(acc, cur))
    ELSE IF t[i] = "\n" THEN SplitLoop(t, i + 1, <<>>, Append(acc, cur))
    ELSE SplitLoop(t, i + 1, Append(cur, t[i]), acc)

\* str.splitlines(): a final line break opens no further line
Splitlines(t) == SplitLoop(t, 1, <<>>, <<>>)

RECURSIVE JoinLines(_)
\* "\n".join(lines)
JoinLines(lines) ==
    IF lines = <<>> THEN <<>>
    ELSE IF Len(lines) = 1 THEN lines[1]
    ELSE lines[1] \o <<"\n">> \o JoinLines(Tail(lines))

RECURSIVE TakeWhile(_, _)
\* the longest prefix of s made of elements of S
TakeWhile(s, S) ==
    IF s # <<>> /\ Head(s) \in S THEN <<Head(s)>> \o TakeWhile(Tail(s), S) ELSE <<>>

DropWhile(s, S) == SubSeq(s, Len(TakeWhile(s, S)) + 1, Len(s))

\* re.fullmatch(r"\d+", s)
AllDigits(s) == s # <<>> /\ \A i \in 1..Len(s) : s[i] \in DigitChars

\* re.fullmatch(r"\s*\d+(\s*/\s*\d+)?", s), what follows "Page"
PageTail(s) ==
    LET a == DropWhile(s, Whitespace)
        n == TakeWhile(a, DigitChars)
        b == DropWhile(a, DigitChars)
        c == DropWhile(b, Whitespace)
    IN  /\ n # <<>>
        /\ \/ b = <<>>
           \/ /\ c # <<>>
              /\ Head(c) = "/"
              /\ AllDigits(DropWhile(Tail(c), Whitespace))

_is_page_number(line) ==
    LET s == Strip(line)
    IN  \/ s # <<>> /\ Head(s) \in PageWords /\ PageTail(Tail(s))
        \/ AllDigits(s)

\* re.fullmatch(r"[-_=]{3,}", l)
IsRule(l) == Len(l) >= 3 /\ \A i \in 1..Len(l) : l[i] \in RuleChars

RECURSIVE CollapseBlanks(_)
\* re.sub(r"[ \t]+", " ", text)
CollapseBlanks(t) ==
    IF t = <<>> THEN <<>>
    ELSE IF Head(t) \in Blanks
         THEN <<" ">> \o CollapseBlanks(DropWhile(t, Blanks))
         ELSE <<Head(t)>> \o CollapseBlanks(Tail(t))

RECURSIVE CollapseBreaks(_)
\* re.sub(r"\n{3,}", "\n\n", text)
CollapseBreaks(t) ==
    IF t = <<>> THEN <<>>
    ELSE IF Head(t) = "\n"
         THEN LET run == TakeWhile(t, {"\n"})
              IN  (IF Len(run) >= 3 THEN <<"\n", "\n">> ELSE run)
                  \o CollapseBreaks(DropWhile(t, {"\n"}))
         ELSE <<Head(t)>> \o CollapseBreaks(Tail(t))

_normalize_spaces(t) == Strip(CollapseBreaks(CollapseBlanks(t)))

\* lines[0].strip() of the sections that have a line
HeaderCandidates(sections) ==
    [i \in {j \in 1..Len(sections) : Splitlines(sections[j].text) # <<>>}
       |-> Strip(Splitlines(sections[i].text)[1])]

\* lines[-1].strip() of the sections that have a line
FooterCandidates(sections) ==
    [i \in {j \in 1..Len(sections) : Splitlines(sections[j].text) # <<>>}
       |-> LET ls == Splitlines(sections[i].text) IN Strip(ls[Len(ls)])]

\* header_candidates[v] / footer_candidates[v]
Occurrences(cands, v) == Cardinality({i \in DOMAIN cands : cands[i] = v})

\* max(2, len(doc.sections_text) // 5)
CommonThreshold(n) == Max(2, n \div 5)

\* {h for h, c in candidates.items() if c >= max(2, len(doc.sections_text) // 5)}
CommonOf(cands, n) ==
    {cands[i] : i \in {j \in DOMAIN cands :
                          Occurrences(cands, cands[j]) >= CommonThreshold(n)}}

\* the sections the header, footer and page-number rules run on
RulesApply_AnySection(sec_id, parsing_method) == TRUE

RulesApply(sec_id, parsing_method) ==
    parsing_method = "deterministic" /\ sec_id[1] = "page-"

RECURSIVE CleanLines(_, _, _, _)
\* the loop over text.splitlines() of one section
CleanLines(raws, sec_id, parsing_method, cm) ==
    IF raws = <<>> THEN <<>>
    ELSE LET l == Strip(Head(raws))
             rest == CleanLines(Tail(raws), sec_id, parsing_method, cm)
         IN  IF l = <<>> THEN rest
             ELSE IF RulesApply(sec_id, parsing_method)
                     /\ (l \in cm.headers \/ l \in cm.footers \/ _is_page_number(l))
                  THEN rest
             ELSE IF IsRule(l) THEN rest
             ELSE <<l>> \o rest

\* common_headers and common_footers of clean_text(d)
Classify(d) ==
    [headers |-> CommonOf(HeaderCandidates(d.sections_text), Len(d.sections_text)),
     footers |-> CommonOf(FooterCandidates(d.sections_text), Len(d.sections_text))]

clean_text(d) ==
    LET cm == Classify(d)
    IN  [i \in 1..Len(d.sections_text) |->
            LET sec == d.sections_text[i]
            IN  [sec_id |-> sec.sec_id,
                 text |-> _normalize_spaces(JoinLines(
                              CleanLines(Splitlines(sec.text), sec.sec_id,
                                         d.parsing_method, cm)))]]

----------------------------------------------------------------------------
\* rag/parsing.py.  A file is its extension and what its reader gives for
\* it: the page texts of a PDF (pages), the shape texts of each slide of a
\* presentation (slides), the one text of any other format (pages[1]); well_formed tells
\* whether the reader can open it, response is what the model replies when
\* it is asked to extract the text.

\* the extensions of the handlers that return one section
OneSectionExts ==
    {".docx", ".txt", ".log", ".html", ".htm", ".csv", ".json", ".md", ".py", ".js",
     ".ts", ".java", ".c", ".cpp", ".go", ".rs"}

DeterministicExts == {".pdf", ".pptx"} \cup OneSectionExts

\* no ParsedDocument
NoDocument == [sections_text |-> <<>>, parsing_method |-> "", page_count |-> 0]

ParseRaises(err) == [ok |-> FALSE, error |-> err, doc |-> NoDocument]

ParseReturns(sections, parsing_method, page_count) ==
    [ok |-> TRUE, error |-> "none",
     doc |-> [sections_text |-> sections, parsing_method |-> parsing_method,
              page_count |-> page_count]]

_parse_pdf(f, c) ==
    LET total_pages == Len(f.pages)
    IN  IF total_pages > c.max_pages_pdf
        THEN ParseRaises("page limit")
        ELSE ParseReturns([i \in 1..total_pages |->
                              [sec_id |-> <<"page-", i>>, text |-> f.pages[i]]],
                          "deterministic", total_pages)

\* [t for the shapes of the slide if t]
ShapeTexts(slide) == SelectSeq(slide, LAMBDA t : t # <<>>)

_parse_pptx(f) ==
    ParseReturns([idx \in 1..Len(f.slides) |->
                     [sec_id |-> <<"slide-", idx>>,
                      text |-> JoinLines(ShapeTexts(f.slides[idx]))]],
                 "deterministic", Len(f.slides))

\* _parse_docx, _parse_txt, _parse_html, _parse_csv, _parse_json,
\* _parse_md_or_code: the text the reader gives, as section-1
_parse_one_section(f) ==
    ParseReturns(<<[sec_id |-> <<"section-", 1>>, text |-> f.pages[1]]>>,
                 "deterministic", 1)

\* str.upper() on the replies of the model
Upper(t) == [i \in 1..Len(t) |-> IF t[i] = "unparseable" THEN "UNPARSEABLE" ELSE t[i]]

_llm_assisted_parse(f, e) ==
    LET p == Strip(f.response)
    IN  IF ~e.GROQ_API_KEY THEN ParseRaises("GROQ_API_KEY is required")
        ELSE IF Strip(Upper(p)) = <<"UNPARSEABLE">> \/ p = <<>>
             THEN ParseRaises("cannot be interpreted")
        ELSE ParseReturns(<<[sec_id |-> <<"section-", 1>>, text |-> p]>>,
                          "llm-assisted", 1)

parse_file(f, c, e) ==
    IF f.ext \in DeterministicExts /\ ~f.well_formed THEN ParseRaises("cannot be read")
    ELSE IF f.ext = ".pdf" THEN _parse_pdf(f, c)
    ELSE IF f.ext = ".pptx" THEN _parse_pptx(f)
    ELSE IF f.ext \in OneSectionExts THEN _parse_one_section(f)
    ELSE _llm_assisted_parse(f, e)

----------------------------------------------------------------------------
\* Inputs of the chunker.

Words == {"a", "[CLS]", "[SEP]"}

\* chunk sizes / overlaps given to the chunker, clamped by the code
ChunkCfgs ==
    {[chunk_size_tokens |-> s, chunk_overlap_tokens |-> o] :
        s \in 0..MaxSize, o \in 0..MaxSize}
    \cup {[chunk_size_tokens |-> DefaultChunkSize,
           chunk_overlap_tokens |-> DefaultChunkOverlap]}

\* the section texts of the 1200-word and 900-word scenarios
ScenarioLens == {1200, 900}

ScenarioTexts == {[i \in 1..n |-> "a"] : n \in ScenarioLens}

\* configurations the chunk_pages calls run under: (size, overlap)
PageCfgs ==
    {[chunk_size_tokens |-> 1, chunk_overlap_tokens |-> 0],
     [chunk_size_tokens |-> 2, chunk_overlap_tokens |-> 1],
     [chunk_size_tokens |-> 2, chunk_overlap_tokens |-> 0]}

SectionIds == <<"page-1", "page-2", "page-3", "page-4", "page-5">>

\* lists of cleaned sections: section i is (page-i, text)
PageLists ==
    UNION {{[i \in 1..k |-> [sec_id |-> SectionIds[i], text |-> t[i]]] :
               t \in [1..k -> SeqsUpTo({"a", "[CLS]"}, MaxSecWords)]} :
           k \in 0..MaxSections}

----------------------------------------------------------------------------
\* The chunker called on its own: the arguments are drawn first, then the
\* call is made.

\* nothing asked yet
NoQuery == [tokens |-> 0, gen_tokens |-> 0, dist |-> <<>>]

NoArgs == [top_k |-> 0, threshold |-> 0]

RetrieverIdle ==
    /\ faiss = NoStore
    /\ args = NoArgs
    /\ search_calls = <<>>
    /\ docs_with_scores = <<>>
    /\ filtered = <<>>
    /\ raised = "none"

\* no file in the uploader
NoFile == [name |-> "", too_large |-> FALSE,
           parse |-> [ok |-> FALSE, parsing_method |-> "", cleaned_pages |-> <<>>]]

\* no file parsed, no text cleaned
NoParsedFile == [ext |-> "", pages |-> <<>>, well_formed |-> TRUE, slides |-> <<>>,
                 response |-> <<>>]

NoCommon == [headers |-> {}, footers |-> {}]

IngestIdle ==
    /\ file = NoParsedFile
    /\ document = NoDocument
    /\ parse_error = "none"
    /\ common = NoCommon
    /\ cleaned = <<>>
    /\ passes = 0

SessionIdle ==
    /\ parsed = ""
    /\ chat = <<>>
    /\ uploaded = NoFile
    /\ env = [GROQ_API_KEY |-> TRUE]
    /\ asked = FALSE
    /\ runs = 0
    /\ builds = 0

GeneratorIdle ==
    /\ results = <<>>
    /\ seg_tokens = <<>>
    /\ llm = <<>>
    /\ context = <<>>
    /\ citations = <<>>
    /\ answer = [content |-> <<>>, suffix |-> "", cited |-> <<>>]
    /\ outcome = "none"
    /\ llm_calls = <<>>
    /\ error = NoError
    /\ model_name = ""

InitChunker ==
    /\ SessionIdle
    /\ IngestIdle
    /\ RetrieverIdle
    /\ query = NoQuery
    /\ GeneratorIdle
    /\ chunks = <<>>
    /\ spans = <<>>
    /\ docs = <<>>
    /\ \/ /\ op = "call _chunk_text"
          /\ cfg \in ChunkCfgs
          /\ text \in (IF cfg.chunk_size_tokens = DefaultChunkSize
                       THEN ScenarioTexts ELSE SeqsUpTo(Words, MaxWords))
          /\ cleaned_pages = <<>>
       \/ /\ op = "call chunk_pages"
          /\ cfg \in PageCfgs
          /\ text = <<>>
          /\ cleaned_pages \in PageLists

\* the call _chunk_text(text)
ChunkText ==
    /\ op = "call _chunk_text"
    /\ LET w == ChunkWindows(text, cfg)
       IN  /\ chunks' = _chunk_text(text, cfg)
           /\ spans' = [i \in 1..Len(w) |-> <<w[i].start, w[i].end>>]
    /\ op' = "_chunk_text"
    /\ UNCHANGED <<cfg, text, cleaned_pages, docs, retrieverVars, generatorVars, ingestVars,
                   sessionVars>>

\* the call chunk_pages(cleaned_pages, source_file, parsing_method)
ChunkPages ==
    /\ op = "call chunk_pages"
    /\ docs' = chunk_pages(cleaned_pages, "doc.pdf", "deterministic", cfg)
    /\ op' = "chunk_pages"
    /\ UNCHANGED <<cfg, text, chunks, spans, cleaned_pages, retrieverVars, ingestVars,
                   generatorVars, sessionVars>>

NextChunker == ChunkText \/ ChunkPages

SpecChunker == InitChunker /\ [][NextChunker]_vars

----------------------------------------------------------------------------
\* Properties of the chunker.

\* S and O of the configuration are valid: 1 <= O < S
ValidSizeOverlap == 1 <= cfg.chunk_overlap_tokens
                    /\ cfg.chunk_overlap_tokens < cfg.chunk_size_tokens

\* words[i*step : min(i*step + size, n)]
RawWindow(words, size, step, i) ==
    Slice(words, i * step, Min(i * step + size, Len(words)))

\* index of the first window whose end is the end of the n words (n >= 1)
LastWindow(n, size, step) ==
    IF n <= size THEN 0 ELSE (n - size + step - 1) \div step

\* no window of the section is a placeholder artifact
NoPlaceholderWindow(words, size, step) ==
    \A i \in 0..LastWindow(Len(words), size, step) :
        RawWindow(words, size, step, i) \notin Placeholders

\* the first `step` words of every window but the last, then the whole of
\* the last window
RECURSIVE Reconstruct(_, _)
Reconstruct(cs, step) ==
    IF cs = <<>> THEN <<>>
    ELSE IF Len(cs) = 1 THEN cs[1]
    ELSE SubSeq(cs[1], 1, Min(step, Len(cs[1]))) \o Reconstruct(Tail(cs), step)

\* windows of at most S words, consecutive windows sharing exactly O words,
\* and the section reconstructed with every word exactly once
WindowsCoverText ==
    LET S == cfg.chunk_size_tokens
        O == cfg.chunk_overlap_tokens
    IN  /\ \A i \in 1..Len(chunks) : Len(chunks[i]) <= S
        /\ \A i \in 1..(Len(chunks) - 1) :
              /\ spans[i][2] - spans[i + 1][1] = O
              /\ Len(chunks[i]) >= O /\ Len(chunks[i + 1]) >= O
              /\ SubSeq(chunks[i], Len(chunks[i]) - O + 1, Len(chunks[i]))
                     = SubSeq(chunks[i + 1], 1, O)
        /\ Reconstruct(chunks, S - O) = text

\* C2 as stated: for every section text and every valid S and O, the windows
\* have at most S words, consecutive windows share exactly O words, and the
\* first `step` words of each window (the whole of the last) reproduce the
\* section's words exactly once each.
C2_Original ==
    (op = "_chunk_text" /\ ValidSizeOverlap) => WindowsCoverText

\* C2 amended: the same, for every section text none of whose windows
\* words[i*step : min(i*step + S, n)] is a placeholder artifact ("[CLS]",
\* "[SEP]", "[CLS] [SEP]"), which _chunk_text drops.
C2_WindowsCoverText ==
    (/\ op = "_chunk_text"
     /\ ValidSizeOverlap
     /\ NoPlaceholderWindow(text, cfg.chunk_size_tokens,
                            cfg.chunk_size_tokens - cfg.chunk_overlap_tokens))
    => WindowsCoverText

\* C2 witness: a section with a placeholder word inside its windows, cut
\* into three overlapping windows, the last one partial
C2_Witness ==
    /\ op = "_chunk_text"
    /\ ValidSizeOverlap
    /\ NoPlaceholderWindow(text, cfg.chunk_size_tokens,
                           cfg.chunk_size_tokens - cfg.chunk_overlap_tokens)
    /\ "[CLS]" \in {text[i] : i \in 1..Len(text)}
    /\ Len(chunks) = 3
    /\ Len(chunks[3]) < cfg.chunk_size_tokens

\* the windows i = 0..k of the section, k the first whose end is n
ExpectedSpans(n, size, step) ==
    [i \in 1..(LastWindow(n, size, step) + 1) |->
        <<(i - 1) * step, Min((i - 1) * step + size, n)>>]

NotPlaceholderSpan(sp) == Slice(text, sp[1], sp[2]) \notin Placeholders

\* the scenarios S=500, O=100: n=1200 and n=900
ScenarioSpans ==
    (cfg.chunk_size_tokens = 500 /\ cfg.chunk_overlap_tokens = 100) =>
        /\ Len(text) = 1200 =>
              spans = << <<0, 500>>, <<400, 900>>, <<800, 1200>> >>
        /\ Len(text) = 900 => spans = << <<0, 500>>, <<400, 900>> >>

\* C3 as stated: for n >= 1 words the emitted windows are exactly
\* words[i*step : min(i*step + S, n)] for i = 0, 1, ... up to the first
\* window whose end is n, so exactly one emitted window ends at the last word.
C3_Original ==
    (op = "_chunk_text" /\ Len(text) >= 1) =>
        LET exp == ExpectedSpans(Len(text), ClampSize(cfg), ClampStep(cfg))
        IN  /\ spans = exp
            /\ chunks = [i \in 1..Len(exp) |-> Slice(text, exp[i][1], exp[i][2])]
            /\ Cardinality({i \in 1..Len(spans) : spans[i][2] = Len(text)}) = 1

\* C3 amended: for n >= 1 words the emitted windows are, in order, the
\* windows words[i*step : min(i*step + S, n)] for i = 0..k (k the first index
\* whose window ends at n) except those equal to a placeholder artifact,
\* which are dropped; no window is emitted after one that ends at the last
\* word, and exactly one emitted window ends there when no window is a
\* placeholder (S=500, O=100: n=1200 and n=900 give the stated windows).
C3_WindowsUpToEnd ==
    (op = "_chunk_text" /\ Len(text) >= 1) =>
        LET exp == SelectSeq(ExpectedSpans(Len(text), ClampSize(cfg), ClampStep(cfg)),
                             NotPlaceholderSpan)
        IN  /\ spans = exp
            /\ chunks = [i \in 1..Len(exp) |-> Slice(text, exp[i][1], exp[i][2])]
            /\ \A i \in 1..Len(spans) : spans[i][2] = Len(text) => i = Len(spans)
            /\ NoPlaceholderWindow(text, ClampSize(cfg), ClampStep(cfg)) =>
                  /\ spans # <<>>
                  /\ spans[Len(spans)][2] = Len(text)
            /\ ScenarioSpans

\* C3 witness: the 1200-word scenario, three windows, the last ending at
\* the last word
C3_Witness ==
    /\ op = "_chunk_text"
    /\ Len(text) = 1200
    /\ Len(spans) = 3
    /\ spans[3] = <<800, 1200>>

\* the ordinal a chunk id "chunk-<digits>" denotes
ChunkOrdinal(chunk_id) == DigitsValue(Tail(chunk_id))

\* position of a section id in the list of cleaned sections
SectionIndex(sec_id) ==
    CHOOSE p \in 1..Len(cleaned_pages) : cleaned_pages[p].sec_id = sec_id

\* the texts of the documents of section p, in output order
DocsOfSection(p) ==
    LET InP(d) == d.metadata.section_or_page = cleaned_pages[p].sec_id
        ds == SelectSeq(docs, InP)
    IN  [i \in 1..Len(ds) |-> ds[i].page_content]

\* C4: the chunk ids of chunk_pages are unique and strictly increasing in
\* output order over the whole document, the i-th chunk carrying ordinal i
\* (no reset at a section boundary, no gap after a section without chunks),
\* and the chunks come in section order, then window order.
C4_ChunkIdsIncrease ==
    op = "chunk_pages" =>
        /\ \A i \in 1..Len(docs) : ChunkOrdinal(docs[i].metadata.chunk_id) = i
        /\ \A i, j \in 1..Len(docs) :
              i < j =>
                /\ docs[i].metadata.chunk_id # docs[j].metadata.chunk_id
                /\ ChunkOrdinal(docs[i].metadata.chunk_id)
                       < ChunkOrdinal(docs[j].metadata.chunk_id)
                /\ SectionIndex(docs[i].metadata.section_or_page)
                       <= SectionIndex(docs[j].metadata.section_or_page)
        /\ \A p \in 1..Len(cleaned_pages) :
              DocsOfSection(p) = _chunk_text(cleaned_pages[p].text, cfg)

\* C4 witness: a section cut into two windows, a section that yields no
\* chunk, then a section with a chunk: ids 1, 2, 3
C4_Witness ==
    /\ op = "chunk_pages"
    /\ Len(cleaned_pages) = 3
    /\ cleaned_pages[2].text # <<>>
    /\ Len(DocsOfSection(1)) = 2
    /\ Len(DocsOfSection(2)) = 0
    /\ Len(DocsOfSection(3)) = 1
    /\ ChunkOrdinal(docs[3].metadata.chunk_id) = 3
    /\ docs[3].metadata.section_or_page = "page-3"

----------------------------------------------------------------------------
\* The retriever called on its own: the index, the query and the arguments
\* are drawn first, then the call is made.

\* a document of the index: chunk i of the document, on page i
IndexedDoc(i) ==
    [page_content |-> <<"a">>,
     metadata |-> [chunk_id |-> FormatChunkId(i),
                   section_or_page |-> SectionIds[1],
                   source_file |-> "doc.pdf",
                   parsing_method |-> "deterministic"]]

ChunkerIdle ==
    /\ text = <<>>
    /\ chunks = <<>>
    /\ spans = <<>>
    /\ cleaned_pages = <<>>
    /\ docs = <<>>

InitRetriever ==
    /\ SessionIdle
    /\ IngestIdle
    /\ ChunkerIdle
    /\ GeneratorIdle
    /\ op = "call retrieve"
    /\ cfg \in [max_query_tokens : 1..MaxQueryTokens]
    /\ faiss \in {NoStore} \cup
                 {build_index([i \in 1..n |-> IndexedDoc(i)]) : n \in 0..MaxChunks}
    /\ query \in UNION {[tokens : 1..(MaxQueryTokens + 1), gen_tokens : {0},
                         dist : [1..n -> 0..MaxDist]] : n \in {Len(faiss.docs)}}
    /\ args \in [top_k : 1..MaxTopK, threshold : 0..MaxDist]
    /\ search_calls = <<>>
    /\ docs_with_scores = <<>>
    /\ filtered = <<>>
    /\ raised = "none"

\* the call retrieve(query, top_k, threshold)
Retrieve ==
    /\ op = "call retrieve"
    /\ LET r == retrieve(query, args.top_k, args.threshold, faiss, cfg)
       IN  /\ raised' = r.raised
           /\ search_calls' = r.search_calls
           /\ docs_with_scores' = r.docs_with_scores
           /\ filtered' = r.filtered
    /\ op' = "retrieve"
    /\ UNCHANGED <<cfg, chunkerVars, generatorVars, sessionVars, ingestVars, faiss, query,
                   args>>

NextRetriever == Retrieve

SpecRetriever == InitRetriever /\ [][NextRetriever]_vars

----------------------------------------------------------------------------
\* Properties of the retriever.

Scores(dws) == {dws[i].score : i \in 1..Len(dws)}

\* C1: for a query within the token limit, when the search returns at least
\* one result and every returned distance is above the threshold, retrieve
\* returns exactly one result, one the search returned, of minimum distance.
C1_FallbackKeepsBest ==
    (/\ op = "retrieve"
     /\ query.tokens <= cfg.max_query_tokens
     /\ faiss.built
     /\ similarity_search_with_score(faiss, query, args.top_k) # <<>>
     /\ \A d \in Scores(similarity_search_with_score(faiss, query, args.top_k)) :
            d > args.threshold)
    => /\ raised = "none"
       /\ Len(filtered) = 1
       /\ \E i \in 1..Len(docs_with_scores) : filtered[1] = docs_with_scores[i]
       /\ \A d \in Scores(docs_with_scores) : filtered[1].score <= d

\* C1 witness: three results at different distances, all above the
\* threshold, one kept
C1_Witness ==
    /\ op = "retrieve"
    /\ Len(docs_with_scores) = 3
    /\ Cardinality(Scores(docs_with_scores)) = 3
    /\ \A d \in Scores(docs_with_scores) : d > args.threshold
    /\ Len(filtered) = 1

\* C9: a query longer than max_query_tokens is rejected with the
\* query-too-long error, and whenever retrieve raises that error no index
\* search has been made, whether or not the index was ever built.
C9_RejectedBeforeSearch ==
    op = "retrieve" =>
        /\ query.tokens > cfg.max_query_tokens =>
              raised = "QueryTooLong" /\ search_calls = <<>>
        /\ raised = "QueryTooLong" =>
              search_calls = <<>> /\ query.tokens > cfg.max_query_tokens

\* C9 witness: a query one token over the limit rejected while a built
\* index with documents is there to search
C9_Witness ==
    /\ op = "retrieve"
    /\ raised = "QueryTooLong"
    /\ faiss.built
    /\ Len(faiss.docs) >= 1
    /\ query.tokens = cfg.max_query_tokens + 1
    /\ search_calls = <<>>

----------------------------------------------------------------------------
\* The generator called on its own, with pre-fetched results: the
\* configuration, the question, the results, the tokenizer's counts and what
\* the generation service does are drawn first, then the call is made.

\* RAGConfig.groq_model default
PrimaryModel == "llama-3.3-70b-versatile"

\* fallback identifiers, the default one first
FallbackNames == <<"llama-3.1-8b-instant", "fallback-2", "fallback-3", "fallback-4">>

\* what one generation attempt can do: answer, fail because the model is
\* decommissioned, fail otherwise
Behaviours == {"ok", "decommissioned", "failed"}

\* result i of n: the chunks come nearest first, in descending id order
PrefetchedResult(i, n) == [doc |-> IndexedDoc(n + 1 - i), score |-> i]

InitGenerator ==
    /\ SessionIdle
    /\ IngestIdle
    /\ ChunkerIdle
    /\ RetrieverIdle
    /\ op = "call generate"
    /\ cfg \in [max_query_tokens : {MaxQueryTokens},
                max_context_tokens : 1..MaxContext,
                groq_model : {PrimaryModel},
                groq_fallbacks : {SubSeq(FallbackNames, 1, f) : f \in 0..MaxFallbacks}]
    /\ \E q \in MaxQueryTokens..(MaxQueryTokens + 1) :
          query = [tokens |-> 0, gen_tokens |-> q, dist |-> <<>>]
    /\ \E n \in 0..MaxResults :
          /\ results = [i \in 1..n |-> PrefetchedResult(i, n)]
          /\ seg_tokens \in [1..n -> 1..MaxSegTokens]
    /\ llm \in [1..(1 + Len(cfg.groq_fallbacks)) -> Behaviours]
    /\ context = <<>>
    /\ citations = <<>>
    /\ answer = [content |-> <<>>, suffix |-> "", cited |-> <<>>]
    /\ outcome = "none"
    /\ llm_calls = <<>>
    /\ error = NoError
    /\ model_name = cfg.groq_model

\* the call generate(question, docs_with_scores)
Generate ==
    /\ op = "call generate"
    /\ LET g == generate(query, results, seg_tokens, llm, model_name, cfg)
       IN  /\ outcome' = g.outcome
           /\ answer' = g.answer
           /\ citations' = g.citations
           /\ context' = g.context
           /\ llm_calls' = g.llm_calls
           /\ error' = g.error
           /\ model_name' = g.model_name
    /\ op' = "generate"
    /\ UNCHANGED <<cfg, chunkerVars, retrieverVars, sessionVars, ingestVars, results,
                   seg_tokens, llm>>

NextGenerator == Generate

SpecGenerator == InitGenerator /\ [][NextGenerator]_vars

----------------------------------------------------------------------------
\* Properties of the generator.

\* token count of the segment of result i, by the tokenizer's counts
ResultTokens(i) == seg_tokens[ChunkOrdinal(results[i].doc.metadata.chunk_id)]

\* token count of the first k results' segments
RECURSIVE TokensOfFirst(_)
TokensOfFirst(k) == IF k = 0 THEN 0 ELSE TokensOfFirst(k - 1) + ResultTokens(k)

\* token count of the first k packed segments
RECURSIVE PackedTokens(_)
PackedTokens(k) ==
    IF k = 0 THEN 0
    ELSE PackedTokens(k - 1) + seg_tokens[ChunkOrdinal(context[k].chunk_id)]

\* the call went as far as packing the context
Packed == outcome \in {"Answered", "Refused-ContextOverflow", "Raised"}

\* C5: the running token count of the packed segments never exceeds
\* max_context_tokens, after any number of packed segments and at the end.
C5_WithinContextBudget ==
    op = "generate" =>
        \A k \in 0..Len(context) : PackedTokens(k) <= cfg.max_context_tokens

\* C5 witness: two of three results packed, filling the budget exactly
C5_Witness ==
    /\ op = "generate"
    /\ Len(results) = 3
    /\ Len(context) = 2
    /\ PackedTokens(2) = cfg.max_context_tokens

\* C6: the packed chunks are the longest prefix of the results whose
\* cumulative token count fits the budget (nothing after the first chunk that
\* does not fit), the citations returned are those chunks one to one in the
\* same order, and the citation suffix of the answer lists exactly them.
C6_LongestPrefixPacked ==
    (op = "generate" /\ Packed) =>
        LET n == Len(context)
        IN  /\ n <= Len(results)
            /\ \A i \in 1..n :
                  /\ context[i].chunk_id = results[i].doc.metadata.chunk_id
                  /\ context[i].section = results[i].doc.metadata.section_or_page
                  /\ context[i].score = results[i].score
            /\ TokensOfFirst(n) <= cfg.max_context_tokens
            /\ n < Len(results) => TokensOfFirst(n + 1) > cfg.max_context_tokens
            /\ outcome # "Raised" =>
                  /\ Len(citations) = n
                  /\ \A i \in 1..n :
                        /\ citations[i].chunk_id = results[i].doc.metadata.chunk_id
                        /\ citations[i].section = results[i].doc.metadata.section_or_page
                        /\ citations[i].score = results[i].score
            /\ outcome = "Answered" =>
                  /\ answer.suffix = "[...]"
                  /\ answer.cited =
                        [i \in 1..n |-> <<results[i].doc.metadata.chunk_id,
                                          results[i].doc.metadata.section_or_page>>]

\* C6 witness: the first chunk packed, the second too big, the third left
\* out although it would fit with the first
C6_Witness ==
    /\ op = "generate"
    /\ outcome = "Answered"
    /\ Len(results) = 3
    /\ Len(context) = 1
    /\ ResultTokens(1) + ResultTokens(3) <= cfg.max_context_tokens
    /\ Len(answer.cited) = 1

Refusals == {"Refused-NoContext", "Refused-QueryTooLong", "Refused-ContextOverflow"}

\* C7: a call of generate that does not raise ends in exactly one of
\* Answered, Refused-NoContext (no result), Refused-QueryTooLong (question
\* over max_query_tokens), Refused-ContextOverflow (no chunk fits the
\* budget); a refusal returns its fixed text, no citation, and the
\* generation service is never invoked.
C7_FourOutcomes ==
    (op = "generate" /\ error.kind = "none") =>
        /\ outcome \in Refusals \cup {"Answered"}
        /\ outcome = "Refused-NoContext" <=> results = <<>>
        /\ outcome = "Refused-QueryTooLong" <=>
              (results # <<>> /\ query.gen_tokens > cfg.max_query_tokens)
        /\ outcome = "Refused-ContextOverflow" <=>
              (/\ results # <<>>
               /\ query.gen_tokens <= cfg.max_query_tokens
               /\ ResultTokens(1) > cfg.max_context_tokens)
        /\ outcome \in Refusals =>
              /\ answer.content = (IF outcome = "Refused-QueryTooLong"
                                   THEN QueryTooLongText ELSE NoContextText)
              /\ answer.suffix = "" /\ answer.cited = <<>>
              /\ citations = <<>>
              /\ llm_calls = <<>>
        /\ outcome = "Answered" =>
              /\ llm_calls # <<>>
              /\ citations # <<>>
              /\ answer.content \notin {NoContextText, QueryTooLongText}

\* C7 witness: results and a short question, but the first chunk alone is
\* over the budget: refusal without any generation call
C7_Witness ==
    /\ op = "generate"
    /\ outcome = "Refused-ContextOverflow"
    /\ Len(results) >= 2
    /\ llm[1] = "ok"
    /\ llm_calls = <<>>
    /\ citations = <<>>

\* index of the first fallback whose call succeeds, 0 if none does
FirstWorkingFallback ==
    IF \E j \in 1..Len(cfg.groq_fallbacks) : llm[1 + j] = "ok"
    THEN CHOOSE j \in 1..Len(cfg.groq_fallbacks) :
             llm[1 + j] = "ok" /\ \A i \in 1..(j - 1) : llm[1 + i] # "ok"
    ELSE 0

\* C8: when the primary call fails because the model is decommissioned the
\* fallbacks are called one at a time in list order, the first that succeeds
\* gives the response and none after it is called; if all fail (or there is
\* none) the error raised is the one of the primary call; any other failure
\* of the primary call is raised at once, no fallback being called.
C8_ModelFallback ==
    (op = "generate" /\ outcome \in {"Answered", "Raised"}) =>
        /\ llm[1] = "ok" =>
              /\ outcome = "Answered"
              /\ llm_calls = <<cfg.groq_model>>
              /\ answer.content = <<"response of", cfg.groq_model>>
        /\ llm[1] = "failed" =>
              /\ outcome = "Raised"
              /\ error = [attempt |-> 1, kind |-> "failed"]
              /\ llm_calls = <<cfg.groq_model>>
        /\ (llm[1] = "decommissioned" /\ FirstWorkingFallback > 0) =>
              /\ outcome = "Answered"
              /\ llm_calls = <<cfg.groq_model>>
                                \o SubSeq(cfg.groq_fallbacks, 1, FirstWorkingFallback)
              /\ answer.content =
                    <<"response of", cfg.groq_fallbacks[FirstWorkingFallback]>>
        /\ (llm[1] = "decommissioned" /\ FirstWorkingFallback = 0) =>
              /\ outcome = "Raised"
              /\ error = [attempt |-> 1, kind |-> "decommissioned"]
              /\ llm_calls = <<cfg.groq_model>> \o cfg.groq_fallbacks

\* C8 witness: the primary model decommissioned, the first fallback failing,
\* the second answering
C8_Witness ==
    /\ op = "generate"
    /\ outcome = "Answered"
    /\ llm[1] = "decommissioned"
    /\ Len(cfg.groq_fallbacks) = 2
    /\ llm[2] = "failed"
    /\ llm[3] = "ok"
    /\ Len(llm_calls) = 3
    /\ answer.content = <<"response of", cfg.groq_fallbacks[2]>>

----------------------------------------------------------------------------
\* app/streamlit_app.py: one run of the script.  st is the session state
\* (parsed, cleaned_pages, docs, faiss, chat), f the file in the uploader,
\* q the question in the text input.

\* The block `if uploaded:`.  f.parse is what parse_file and clean_text give
\* for the file.  FAISS.from_documents fails on an empty list of documents,
\* which ends the run.
UploadBlock_TagOfUpload(st, f, c) ==
    IF f = NoFile THEN [st |-> st, crashed |-> FALSE, builds |-> 0]
    ELSE LET st1 == IF f.too_large \/ ~f.parse.ok THEN st
                    ELSE [st EXCEPT !.parsed = f.parse.parsing_method,
                                    !.cleaned_pages = f.parse.cleaned_pages]
         IN  IF st1.cleaned_pages = <<>>
             THEN [st |-> st1, crashed |-> FALSE, builds |-> 0]
             ELSE LET ds == chunk_pages(st1.cleaned_pages, f.name,
                                        f.parse.parsing_method, c)
                  IN  IF ds = <<>> THEN [st |-> st1, crashed |-> TRUE, builds |-> 0]
                      ELSE [st |-> [st1 EXCEPT !.docs = ds,
                                               !.faiss = build_index(ds)],
                            crashed |-> FALSE, builds |-> 1]

UploadBlock(st, f, c) ==
    IF f = NoFile THEN [st |-> st, crashed |-> FALSE, builds |-> 0]
    ELSE LET st1 == IF f.too_large \/ ~f.parse.ok THEN st
                    ELSE [st EXCEPT !.parsed = f.parse.parsing_method,
                                    !.cleaned_pages = f.parse.cleaned_pages]
         IN  IF st1.cleaned_pages = <<>>
             THEN [st |-> st1, crashed |-> FALSE, builds |-> 0]
             ELSE LET ds == chunk_pages(st1.cleaned_pages, f.name, st1.parsed, c)
                  IN  IF ds = <<>> THEN [st |-> st1, crashed |-> TRUE, builds |-> 0]
                      ELSE [st |-> [st1 EXCEPT !.docs = ds,
                                               !.faiss = build_index(ds)],
                            crashed |-> FALSE, builds |-> 1]

\* nothing retrieved or generated in this run
NoRetrieval == RetrieveRaises("none", <<>>)

NoGeneration ==
    [outcome |-> "none",
     answer |-> [content |-> <<>>, suffix |-> "", cited |-> <<>>],
     citations |-> <<>>, context |-> <<>>, llm_calls |-> <<>>,
     error |-> NoError, model_name |-> ""]

\* the answer of the app when GroqGenerator() raises EnvironmentError
KeyMissingText == <<"Groq API key missing.">>

\* The block `if st.session_state.faiss:` with a question q.  tok counts the
\* tokens of each indexed chunk's segment, behaviour is what the generation
\* service does in this run.  A ValueError of retrieve gives results = [];
\* an error raised by generate ends the run before the chat is appended.
QuestionBlock(st, q, tok, behaviour, e, c) ==
    IF ~st.faiss.built \/ q = NoQuery
    THEN [st |-> st, asked |-> FALSE, r |-> NoRetrieval, res |-> <<>>,
          g |-> NoGeneration]
    ELSE LET r == retrieve(q, c.top_k, c.max_distance, st.faiss, c)
             res == IF r.raised = "none" THEN r.filtered ELSE <<>>
             g == IF e.GROQ_API_KEY
                  THEN generate(q, res, tok, behaviour, c.groq_model, c)
                  ELSE [NoGeneration EXCEPT
                           !.outcome = "KeyMissing",
                           !.answer = [content |-> KeyMissingText,
                                       suffix |-> "", cited |-> <<>>]]
             entry == [question |-> q, answer |-> g.answer,
                       citations |-> g.citations]
         IN  [st |-> IF g.outcome = "Raised" THEN st
                     ELSE [st EXCEPT !.chat = Append(st.chat, entry)],
              asked |-> TRUE, r |-> r, res |-> res, g |-> g]

\* tokens the generation model's tokenizer makes of a word
WordTokens(w) == IF w = "long" THEN 3 ELSE 1

RECURSIVE TextTokens(_)
TextTokens(words) ==
    IF words = <<>> THEN 0 ELSE WordTokens(Head(words)) + TextTokens(Tail(words))

\* token count of the segment of each indexed chunk
IndexTokens(store) == [i \in 1..Len(store.docs) |-> TextTokens(store.docs[i].page_content)]

----------------------------------------------------------------------------
\* A session of the app: files are put in the uploader or removed from it,
\* questions are entered, and each event runs the script once.

\* scaled-down valid configurations of a session
SessionCfgs ==
    [chunk_size_tokens : {2}, chunk_overlap_tokens : {1},
     top_k : {1, 2}, max_distance : {1},
     max_query_tokens : {1}, max_context_tokens : {2},
     groq_model : {PrimaryModel},
     groq_fallbacks : {SubSeq(FallbackNames, 1, 1)},
     max_pages_pdf : {DefaultMaxPagesPdf}]

ParseFails == [ok |-> FALSE, parsing_method |-> "", cleaned_pages |-> <<>>]

\* str(section id), as the chunk metadata shows it
IdText(sec_id) ==
    IF sec_id[1] = "page-" THEN SectionIds[sec_id[2]]
    ELSE IF sec_id[1] = "slide-" THEN <<"slide-1", "slide-2", "slide-3">>[sec_id[2]]
    ELSE "section-1"

\* re.findall(r"\S+", text) of _chunk_text, on texts whose words are single
\* elements separated by whitespace
FindallWords(t) == SelectSeq(t, LAMBDA x : x \notin Whitespace)

\* parse_file and clean_text of the upload block on the content src of a file:
\* what the session keeps of them
Ingest(src, c, e) ==
    LET r == parse_file(src, c, e)
        cl == clean_text(r.doc)
    IN  IF ~r.ok THEN ParseFails
        ELSE [ok |-> TRUE, parsing_method |-> r.doc.parsing_method,
              cleaned_pages |-> [i \in 1..Len(cl) |->
                                    [sec_id |-> IdText(cl[i].sec_id),
                                     text |-> FindallWords(cl[i].text)]]]

\* os.path.splitext(uploaded.name.lower())[1]
ExtOf(name) ==
    CASE name \in {"report.pdf", "huge.pdf"} -> ".pdf"
      [] name = "notes.bin" -> ".bin"
      [] name = "broken.json" -> ".json"
      [] name = "blank.txt" -> ".txt"

\* content of the upload called name
Content(name, pages, well_formed, response) ==
    [ext |-> ExtOf(name), pages |-> pages, well_formed |-> well_formed, slides |-> <<>>,
     response |-> response]

\* uploads: a two-page PDF, a file parsed with assistance, a file over the
\* size limit, a file whose parsing raises, a file without text
Files ==
    {[name |-> "report.pdf", too_large |-> FALSE,
      parse |-> Ingest(Content("report.pdf", <<<<"a", " ", "long", " ", "a", "\n", "Page", " ", "1">>,
                                         <<"a", "\n", "2">>>>, TRUE, <<>>), cfg, env)],
     [name |-> "notes.bin", too_large |-> FALSE,
      parse |-> Ingest(Content("notes.bin", <<<<"%", "a">>>>, TRUE,
                               <<" ", "a", "\n">>), cfg, env)],
     [name |-> "huge.pdf", too_large |-> TRUE, parse |-> ParseFails],
     [name |-> "broken.json", too_large |-> FALSE,
      parse |-> Ingest(Content("broken.json", <<<<"a">>>>, FALSE, <<>>), cfg, env)],
     [name |-> "blank.txt", too_large |-> FALSE,
      parse |-> Ingest(Content("blank.txt", <<<<>>>>, TRUE, <<>>), cfg, env)]}

\* questions: token counts by the two tokenizers, distance to chunk 1, 2, 3
Questions ==
    {[tokens |-> 1, gen_tokens |-> 1, dist |-> <<3, 3, 2>>],
     [tokens |-> 1, gen_tokens |-> 1, dist |-> <<2, 3, 3>>],
     [tokens |-> 1, gen_tokens |-> 1, dist |-> <<1, 3, 1>>],
     [tokens |-> 2, gen_tokens |-> 2, dist |-> <<1, 3, 1>>],
     [tokens |-> 1, gen_tokens |-> 2, dist |-> <<3, 2, 3>>]}

\* what the generation service does in a run: primary call, then fallback
SessionBehaviours ==
    {<<"ok", "ok">>, <<"failed", "ok">>, <<"decommissioned", "ok">>,
     <<"decommissioned", "failed">>}

Init ==
    /\ ChunkerIdle
    /\ IngestIdle
    /\ RetrieverIdle
    /\ GeneratorIdle
    /\ query = NoQuery
    /\ parsed = ""
    /\ chat = <<>>
    /\ uploaded = NoFile
    /\ env \in [GROQ_API_KEY : BOOLEAN]
    /\ asked = FALSE
    /\ runs = 0
    /\ builds = 0
    /\ cfg \in SessionCfgs
    /\ op = "init"

\* one run of the script with file f in the uploader and question q entered
ScriptRun(f, q) ==
    /\ runs < MaxRuns
    /\ \E behaviour \in SessionBehaviours :
       \E up \in {UploadBlock([parsed |-> parsed, cleaned_pages |-> cleaned_pages,
                                docs |-> docs, faiss |-> faiss, chat |-> chat],
                               f, cfg)} :
       \E tok \in {IndexTokens(up.st.faiss)} :
       \E qa \in {IF up.crashed
                   THEN [st |-> up.st, asked |-> FALSE, r |-> NoRetrieval,
                         res |-> <<>>, g |-> NoGeneration]
                   ELSE QuestionBlock(up.st, q, tok, behaviour, env, cfg)} :
            /\ runs' = runs + 1
            /\ builds' = up.builds
            /\ uploaded' = f
            /\ query' = q
            /\ parsed' = qa.st.parsed
            /\ cleaned_pages' = qa.st.cleaned_pages
            /\ docs' = qa.st.docs
            /\ faiss' = qa.st.faiss
            /\ chat' = qa.st.chat
            /\ asked' = qa.asked
            /\ args' = IF qa.asked
                       THEN [top_k |-> cfg.top_k, threshold |-> cfg.max_distance]
                       ELSE NoArgs
            /\ raised' = qa.r.raised
            /\ search_calls' = qa.r.search_calls
            /\ docs_with_scores' = qa.r.docs_with_scores
            /\ filtered' = qa.r.filtered
            /\ results' = qa.res
            /\ seg_tokens' = IF qa.asked THEN tok ELSE <<>>
            /\ llm' = IF qa.asked THEN behaviour ELSE <<>>
            /\ context' = qa.g.context
            /\ citations' = qa.g.citations
            /\ answer' = qa.g.answer
            /\ outcome' = qa.g.outcome
            /\ llm_calls' = qa.g.llm_calls
            /\ error' = qa.g.error
            /\ model_name' = qa.g.model_name
            /\ UNCHANGED <<cfg, env, text, chunks, spans, ingestVars>>

\* the user puts a file in the uploader
UploadFile == \E f \in Files : ScriptRun(f, query) /\ op' = "upload"

\* the user removes the file from the uploader
RemoveFile == uploaded # NoFile /\ ScriptRun(NoFile, query) /\ op' = "remove"

\* the user enters a question
EnterQuestion == \E q \in Questions : ScriptRun(uploaded, q) /\ op' = "question"

Next == UploadFile \/ RemoveFile \/ EnterQuestion

Spec == Init /\ [][Next]_vars

----------------------------------------------------------------------------
\* Properties of a session.

\* the question block ran and generate returned an answer
GenerateReturned == asked /\ outcome \in Refusals \cup {"Answered"}

\* the question is within the retriever's limit, the index holds a chunk and
\* no indexed chunk is within the distance threshold
NoChunkPasses ==
    /\ query.tokens <= cfg.max_query_tokens
    /\ Len(faiss.docs) >= 1
    /\ \A i \in 1..Len(faiss.docs) : query.dist[i] > cfg.max_distance

\* retrieve returned exactly one chunk of the index, none being closer
ClosestReturned ==
    /\ raised = "none"
    /\ Len(filtered) = 1
    /\ \E i \in 1..Len(faiss.docs) :
          filtered[1] = [doc |-> faiss.docs[i], score |-> query.dist[i]]
    /\ \A i \in 1..Len(faiss.docs) : filtered[1].score <= query.dist[i]

\* the citation suffix of the answer names the chunk retrieve returned
ClosestCited ==
    \E i \in 1..Len(answer.cited) :
        answer.cited[i][1] = filtered[1].doc.metadata.chunk_id

\* C10 as stated: when the question is within the query limit, the index
\* holds a chunk and no chunk passes the threshold, retrieval returns exactly
\* the closest chunk and the answer generate returns names it in its
\* citation suffix.
C10_Original ==
    (GenerateReturned /\ NoChunkPasses) => (ClosestReturned /\ ClosestCited)

\* C10 amended: in that case retrieval returns exactly the closest chunk;
\* the answer generate returns names it in its citation suffix when the
\* question is also within max_query_tokens by the generator's tokenizer and
\* the chunk's segment fits max_context_tokens, and is otherwise a refusal
\* without citations.
C10_ClosestChunkCited ==
    (GenerateReturned /\ NoChunkPasses) =>
        /\ ClosestReturned
        /\ IF /\ query.gen_tokens <= cfg.max_query_tokens
              /\ SegTokens(filtered[1].doc, seg_tokens) <= cfg.max_context_tokens
           THEN /\ outcome = "Answered"
                /\ ClosestCited
                /\ Len(answer.cited) = 1
           ELSE /\ outcome \in Refusals
                /\ answer.cited = <<>>
                /\ citations = <<>>

\* C10 witness: three indexed chunks, none within the threshold, the
\* closest one returned, cited in the answer and in the chat entry
C10_Witness ==
    /\ GenerateReturned
    /\ NoChunkPasses
    /\ Len(faiss.docs) = 3
    /\ outcome = "Answered"
    /\ ClosestCited
    /\ chat # <<>>
    /\ chat[Len(chat)].answer = answer

----------------------------------------------------------------------------
\* Inputs of parse_file and clean_text.

\* most pages of a PDF, slides of a presentation
MaxPages == 3

\* most sections sharing the marked first (last) line in a long document
MaxMarked == 3

\* texts of a page: a header line, body lines, page numbers, rules, blanks
PageTexts ==
    {<<"CONFIDENTIAL", "\n", "intro", "\n", "alpha", "\n", "Page", " ", "1">>,
     <<"CONFIDENTIAL", "\n", "intro", "\n", "beta", " ", "\t", "gamma", "\n",
       "page", "2", " ", "/", " ", "3">>,
     <<"\n", " ", "CONFIDENTIAL", " ", "\n", "-", "-", "-", "\n", "delta", "\n", "7">>,
     <<"intro", " ", "alpha", "\n", "\n", "\n", "\n", "intro", " ", " ", "alpha",
       "\n", "=", "=">>,
     <<" ", "\n", "\t", "\n">>,
     <<>>}

\* slides: the texts of their shapes
Slides ==
    {<<<<"CONFIDENTIAL">>, <<"alpha", "\n", "1">>>>,
     <<<<"CONFIDENTIAL">>, <<>>, <<"beta">>>>,
     <<<<>>>>,
     <<>>}

\* what the model replies to the extraction prompt
Responses ==
    {<<>>, <<" ", "\n">>, <<"UNPARSEABLE">>, <<" ", "unparseable", "\n">>,
     <<"alpha", "\n", "-", "-", "-", "\n", " ", "beta">>}

\* section counts of the long documents
LongLens == {10, 11, 15}

Labels == <<"a", "b", "c", "d", "e", "f", "g", "h", "i", "j", "k", "l", "m", "n", "o">>

\* page i of a long document whose first c pages start with HEAD and whose
\* first d pages end with FOOT
LongPage(i, c, d) ==
    (IF i <= c THEN <<"HEAD">> ELSE <<"item", Labels[i]>>)
    \o <<"\n", "body", Labels[i], "\n">>
    \o (IF i <= d THEN <<"FOOT">> ELSE <<"note", Labels[i]>>)

ParsedFiles ==
    {[ext |-> ".pdf", pages |-> p, well_formed |-> TRUE, slides |-> <<>>, response |-> <<>>] :
        p \in SeqsUpTo(PageTexts, MaxPages) \ {<<>>}}
    \cup {[ext |-> ".pdf", pages |-> [i \in 1..n |-> LongPage(i, c, d)],
           well_formed |-> TRUE, slides |-> <<>>, response |-> <<>>] :
             n \in LongLens, c \in 0..MaxMarked, d \in 0..MaxMarked}
    \cup {[ext |-> ".pptx", pages |-> <<>>, well_formed |-> TRUE, slides |-> p,
           response |-> <<>>] : p \in SeqsUpTo(Slides, MaxPages)}
    \cup {[ext |-> x, pages |-> <<t>>, well_formed |-> w, slides |-> <<>>,
           response |-> <<>>] :
             x \in {".txt", ".docx", ".json"}, t \in PageTexts, w \in BOOLEAN}
    \cup {[ext |-> x, pages |-> <<<<"%", "\t", "alpha">>>>, well_formed |-> TRUE,
           slides |-> <<>>, response |-> r] : x \in {".bin", ""}, r \in Responses}

IngestCfgs == {[max_pages_pdf |-> n] : n \in {MaxPages - 1, DefaultMaxPagesPdf}}

----------------------------------------------------------------------------
\* parse_file and clean_text called on a file: the file is drawn first, then
\* parsed; the document is cleaned, and its cleaned sections cleaned again.

InitIngest ==
    /\ ChunkerIdle
    /\ RetrieverIdle
    /\ query = NoQuery
    /\ GeneratorIdle
    /\ parsed = ""
    /\ chat = <<>>
    /\ uploaded = NoFile
    /\ asked = FALSE
    /\ runs = 0
    /\ builds = 0
    /\ env \in [GROQ_API_KEY : BOOLEAN]
    /\ cfg \in IngestCfgs
    /\ file \in ParsedFiles
    /\ (file.ext \in DeterministicExts => env.GROQ_API_KEY)
    /\ document = NoDocument
    /\ parse_error = "none"
    /\ common = NoCommon
    /\ cleaned = <<>>
    /\ passes = 0
    /\ op = "call parse_file"

\* parsed = parse_file(info.path, info.ext, cfg)
ParseFile ==
    /\ op = "call parse_file"
    /\ LET r == parse_file(file, cfg, env)
       IN  /\ document' = r.doc
           /\ parse_error' = r.error
           /\ op' = IF r.ok THEN "parse_file" ELSE "parse_file raised"
    /\ UNCHANGED <<cfg, file, common, cleaned, passes, chunkerVars, retrieverVars,
                   generatorVars, sessionVars>>

\* cleaned_pages = clean_text(parsed)
CleanText ==
    /\ op = "parse_file"
    /\ common' = Classify(document)
    /\ cleaned' = clean_text(document)
    /\ passes' = 1
    /\ op' = "clean_text"
    /\ UNCHANGED <<cfg, file, document, parse_error, chunkerVars, retrieverVars,
                   generatorVars, sessionVars>>

\* clean_text on the document whose sections are the cleaned ones
CleanAgain ==
    /\ op = "clean_text"
    /\ passes = 1
    /\ LET again == [document EXCEPT !.sections_text = cleaned]
       IN  /\ document' = again
           /\ common' = Classify(again)
           /\ cleaned' = clean_text(again)
    /\ passes' = 2
    /\ op' = "clean_text"
    /\ UNCHANGED <<cfg, file, parse_error, chunkerVars, retrieverVars, generatorVars,
                   sessionVars>>

NextIngest == ParseFile \/ CleanText \/ CleanAgain

SpecIngest == InitIngest /\ [][NextIngest]_vars

----------------------------------------------------------------------------
\* Properties of the cleaner.

\* the lines of section i of the document clean_text was last given
LinesOf(i) == Splitlines(document.sections_text[i].text)

\* the sections of a deterministic document whose ids are page-<n>
PageSections ==
    {i \in 1..Len(document.sections_text) :
        /\ document.parsing_method = "deterministic"
        /\ document.sections_text[i].sec_id[1] = "page-"}

\* the second call returned what it was given
SecondPassChangesNothing == cleaned = document.sections_text

\* no line of a page section given to the call is one of the values the call
\* found common
NoCommonLineGiven ==
    \A i \in PageSections : \A k \in 1..Len(LinesOf(i)) :
        LinesOf(i)[k] \notin (common.headers \cup common.footers)

\* C11 as stated: clean_text applied to the output of clean_text (same section
\* ids, same parsing method) returns exactly the same section texts.
C11_Original == passes = 2 => SecondPassChangesNothing

\* C11, amended: clean_text applied to the output of clean_text returns the
\* same section texts whenever no line of a cleaned page-<n> section of a
\* deterministic document is a first-line or last-line value that is common
\* among the cleaned sections; this covers every document whose sections are
\* not page-<n> sections or whose parsing method is not deterministic.
C11_IdempotentUnlessNewCommonLine ==
    (passes = 2 /\ NoCommonLineGiven) => SecondPassChangesNothing

\* the second call was made on pages the first call had removed lines from
C11_Witness ==
    /\ passes = 2
    /\ NoCommonLineGiven
    /\ file.ext = ".pdf"
    /\ Len(cleaned) >= 2
    /\ \A i \in 1..Len(cleaned) :
          cleaned[i].text # <<>> /\ cleaned[i].text # file.pages[i]

\* the lines of section i of the text clean_text returned
CleanedLines(i) == Splitlines(cleaned[i].text)

\* C12 as stated: no cleaned section contains a line equal to a value that
\* clean_text classified as a common header or a common footer of the document.
C12_Original ==
    passes >= 1 =>
        \A i \in 1..Len(cleaned) : \A k \in 1..Len(CleanedLines(i)) :
            CleanedLines(i)[k] \notin (common.headers \cup common.footers)

\* the lines of a section text that are not blank, stripped
NonEmptyLines(t) == SelectSeq([k \in 1..Len(Splitlines(t)) |-> Strip(Splitlines(t)[k])],
                              LAMBDA l : l # <<>>)

\* the first non-empty line of every section that has one
FirstNonEmptyLines(sections) ==
    [i \in {j \in 1..Len(sections) : NonEmptyLines(sections[j].text) # <<>>}
       |-> NonEmptyLines(sections[i].text)[1]]

\* the last non-empty line of every section that has one
LastNonEmptyLines(sections) ==
    [i \in {j \in 1..Len(sections) : NonEmptyLines(sections[j].text) # <<>>}
       |-> LET ls == NonEmptyLines(sections[i].text) IN ls[Len(ls)]]

\* c >= max(2, N / 5)
AtLeastAFifth(c, n) == c >= 2 /\ 5 * c >= n

\* the values of cands that occur at least max(2, N / 5) times
FrequentOf(cands, n) ==
    {cands[i] : i \in {j \in DOMAIN cands :
                          AtLeastAFifth(Occurrences(cands, cands[j]), n)}}

\* C13 as stated: a first-line (last-line) value is classified as a common
\* header (footer) exactly when it is the first (last) non-empty line of at
\* least max(2, N / 5) of the N sections.
C13_Original ==
    passes = 1 =>
        /\ common.headers =
              FrequentOf(FirstNonEmptyLines(document.sections_text),
                         Len(document.sections_text))
        /\ common.footers =
              FrequentOf(LastNonEmptyLines(document.sections_text),
                         Len(document.sections_text))

----------------------------------------------------------------------------
\* Properties of the uploads of a session.

\* file f is over the size limit, or parse_file raises on it
UploadFails(f) == f # NoFile /\ (f.too_large \/ ~f.parse.ok)

\* C14 as stated: a script run whose upload fails (file over the size limit,
\* or parsing raises) leaves the index built for the previous document, with
\* its chunks, their text and their metadata, exactly as it was.
C14_Original == [][UploadFails(uploaded') => (faiss' = faiss /\ docs' = docs)]_vars

\* C15 as stated: once the index is built for the uploaded document, a script
\* run made for a question does not build it again.
C15_Original == [][(faiss.built /\ op' = "question") => builds' = 0]_vars

----------------------------------------------------------------------------
\* Properties of parse_file.

\* parse_file returned a ParsedDocument
ParseReturned == op = "parse_file"

\* some section of the document has text
HasText(d) == \E i \in 1..Len(d.sections_text) : Strip(d.sections_text[i].text) # <<>>

\* C16 as stated: every ParsedDocument parse_file returns has at least one
\* section with text; a file no text can be obtained from makes it fail.
C16_Original == ParseReturned => HasText(document)

\* the parse_file call has ended
ParseEnded == op \in {"parse_file", "parse_file raised"}

\* pages of a PDF, slides of a presentation
PageCount(f) == IF f.ext = ".pptx" THEN Len(f.slides) ELSE Len(f.pages)

\* parse_file raised the page-limit error and returned no document
FailedOnPageLimit ==
    op = "parse_file raised" /\ parse_error = "page limit" /\ document = NoDocument

\* parse_file returned one section per page or slide, with the 1-based
\* ordinals in order as ids
OneSectionPerPage(prefix) ==
    /\ op = "parse_file"
    /\ Len(document.sections_text) = PageCount(file)
    /\ \A i \in 1..PageCount(file) : document.sections_text[i].sec_id = <<prefix, i>>

\* C17 as stated: a PDF or a presentation over the configured maximum makes
\* parse_file fail with the page-limit error; one at or under it gives one
\* section per page or slide, ids the 1-based ordinals in order.
C17_Original ==
    (ParseEnded /\ file.well_formed /\ file.ext \in {".pdf", ".pptx"}) =>
        IF PageCount(file) > cfg.max_pages_pdf THEN FailedOnPageLimit
        ELSE OneSectionPerPage(IF file.ext = ".pdf" THEN "page-" ELSE "slide-")

----------------------------------------------------------------------------
\* Provenance of the indexed chunks.

\* the parsing method of the handler parse_file has for an extension
MethodOfExt(ext) == IF ext \in DeterministicExts THEN "deterministic" ELSE "llm-assisted"

\* the text and section of each indexed chunk
IndexedText(ds) ==
    [i \in 1..Len(ds) |-> <<ds[i].page_content, ds[i].metadata.section_or_page>>]

\* the index holds the chunks of the document parsed from f, each tagged with
\* the parsing method of that document
CutFrom(f) ==
    /\ f.parse.ok
    /\ IndexedText(faiss.docs) =
           IndexedText(chunk_pages(f.parse.cleaned_pages, f.name,
                                   f.parse.parsing_method, cfg))
    /\ \A i \in 1..Len(faiss.docs) :
           faiss.docs[i].metadata.parsing_method = f.parse.parsing_method

\* C18: after any sequence of uploads, failed ones included, every chunk of
\* the index carries the parsing method of the parsed document its text was cut
\* from, which is deterministic when the file's extension has a deterministic
\* handler and llm-assisted otherwise.
C18_MethodTagPropagates ==
    faiss.built =>
        \E f \in Files :
            /\ CutFrom(f)
            /\ f.parse.parsing_method = MethodOfExt(ExtOf(f.name))

\* the index was rebuilt in a run whose upload failed, after uploads parsed
\* with either method
C18_Witness ==
    /\ UploadFails(uploaded)
    /\ builds = 1
    /\ faiss.built
    /\ \A i \in 1..Len(faiss.docs) :
           faiss.docs[i].metadata.parsing_method = "llm-assisted"

----------------------------------------------------------------------------
\* State of the generator across a call.

\* C19 as stated: whatever the outcome of generate, the generator's model
\* identifier (and the client made for it) is after the call what it was
\* before the call.
C19_Original == [][model_name' = model_name]_vars

----------------------------------------------------------------------------
\* The output of retrieve.

RECURSIVE IsSubsequence(_, _)
\* a is b with some elements left out, order kept
IsSubsequence(a, b) ==
    IF a = <<>> THEN TRUE
    ELSE IF b = <<>> THEN FALSE
    ELSE IF Head(a) = Head(b) THEN IsSubsequence(Tail(a), Tail(b))
    ELSE IsSubsequence(a, Tail(b))

\* the distances of rs are in ascending order
Ascending(rs) == \A i \in 1..(Len(rs) - 1) : rs[i].score <= rs[i + 1].score

\* rs is the one result of least distance, none being within the threshold
SingleFallback(rs) ==
    /\ Len(rs) = 1
    /\ \A j \in 1..Len(docs_with_scores) :
          /\ docs_with_scores[j].score > args.threshold
          /\ rs[1].score <= docs_with_scores[j].score

\* C20: when retrieve returns, its output is a non-empty order-preserving
\* subsequence of the search results, of length at most top_k; every returned
\* distance is within the threshold, or the output is the single fallback
\* result; the output is in ascending distance when the search results are.
\* When the search returns no result, retrieve raises the no-context error.
C20_RetrieveOutput ==
    op = "retrieve" =>
        /\ raised = "none" =>
              /\ filtered # <<>>
              /\ Len(filtered) <= args.top_k
              /\ IsSubsequence(filtered, docs_with_scores)
              /\ \/ \A i \in 1..Len(filtered) : filtered[i].score <= args.threshold
                 \/ SingleFallback(filtered)
              /\ Ascending(docs_with_scores) => Ascending(filtered)
        /\ (search_calls # <<>> /\ faiss.docs = <<>>) =>
              (raised = "NoContext" /\ filtered = <<>>)

\* retrieve returned several results, having left out one beyond the threshold
C20_Witness ==
    /\ op = "retrieve"
    /\ raised = "none"
    /\ Len(filtered) >= 2
    /\ Len(filtered) < Len(docs_with_scores)

----------------------------------------------------------------------------
\* Questions that retrieve rejects.

\* the chat entry of question q answered by the fixed text t, without citation
RefusalEntry(q, t) ==
    [question |-> q, answer |-> [content |-> t, suffix |-> "", cited |-> <<>>],
     citations |-> <<>>]

\* the run made for the question reached retrieve, which raised ValueError
RetrieveRejected == asked /\ raised \in {"QueryTooLong", "NoContext"}

\* C21 as stated: a script run whose question retrieve rejects appends exactly
\* one chat entry, holding the no-context refusal text and no citations.
C21_Original ==
    [][RetrieveRejected' => chat' = Append(chat, RefusalEntry(query', NoContextText))]_vars

\* C21, amended: a script run whose question retrieve rejects appends exactly
\* one chat entry without citations; with GROQ_API_KEY set, generate is given
\* an empty result set, invokes no model and the entry holds the no-context
\* refusal text, never the query-too-long refusal; without the key the
\* generator cannot be made and the entry holds "Groq API key missing.".
C21_RejectedQuestionRefused ==
    [][RetrieveRejected' =>
          /\ results' = <<>>
          /\ llm_calls' = <<>>
          /\ IF env.GROQ_API_KEY
             THEN /\ outcome' = "Refused-NoContext"
                  /\ chat' = Append(chat, RefusalEntry(query', NoContextText))
             ELSE chat' = Append(chat, RefusalEntry(query', KeyMissingText))]_vars

\* a question too long for both tokenizers was rejected by retrieve and
\* answered with the no-context refusal
C21_Witness ==
    /\ RetrieveRejected
    /\ env.GROQ_API_KEY
    /\ GenTokens(query) > cfg.max_query_tokens
    /\ outcome = "Refused-NoContext"
    /\ chat # <<>>
    /\ chat[Len(chat)] = RefusalEntry(query, NoContextText)

====
